---- MODULE Spec2Model ----
(***************************************************************************)
(* Subscription provisioning and reconciliation of the VPN bot:            *)
(* the SQLite ledger (db/models.py), the mock payment service              *)
(* (services/payments.py), the request handlers buy / pay_confirm / start  *)
(* (bot/handlers), ensure_admin_subscription (services/admin_access.py)    *)
(* and the subscription_watcher task (bot/main.py).                        *)
(*                                                                         *)
(* Handlers are asyncio coroutines: they interleave at every await, so one *)
(* action is one awaited call together with the synchronous code that      *)
(* follows it up to the next await.                                        *)
(***************************************************************************)
EXTENDS Integers, Sequences, FiniteSets, TLC

\* ---------------------------------------------------------------- bounds
MaxTime == 2          \* the wall clock runs over 1..MaxTime
NumTasks == 2         \* handler coroutines that may be in flight at once
ValidityTicks == 1    \* cfg.subscription_days * 86400, in clock ticks
MaxCalls == 2         \* updates the dispatcher hands to handlers
MaxRows == 3          \* subscription rows of a ledger given to the listing query
MaxInbounds == 2      \* inbounds the panel lists
MaxSubs == 2          \* subscription rows of a ledger given to both queries

\* ------------------------------------------------------ program constants
NULL == 0             \* SQL NULL / Python None for integer columns
Users == {1, 2}       \* telegram ids that send updates
Persisted == 0..2     \* pending payments of user 1 in the ledger the bot starts on
admin_tg_ids == {1}   \* cfg.admin_tg_ids
subscription_price_rub == 199
Tasks == 1..NumTasks

\* Python values of the panel's JSON: None, str, list of str, dict
None == [ t |-> "none", v |-> "" ]
Str(text) == [ t |-> "str", v |-> text ]
List(items) == [ t |-> "list", v |-> items ]
Dict(members) == [ t |-> "dict", v |-> members ]

\* a realitySettings object by the members the builder reads (None: no such
\* member); `other`: it has further members
Reality(pbk, sni, sid, fp, spx, other) ==
    [ publicKey |-> pbk, public_key |-> None, serverNames |-> sni, server_names |-> None,
      shortIds |-> sid, short_ids |-> None, fingerprint |-> fp,
      spiderX |-> spx, spider_x |-> None, other |-> other ]

\* the panel's inbound list as list_inbounds parses it
Inbounds ==
    << [ id |-> 7, remark |-> "main", port |-> 443, protocol |-> "vless",
         stream_settings |->
            [ realitySettings |-> Dict(Reality(Str("PK"), List(<< "sni1" >>), List(<< "sid1" >>),
                                               Str("firefox"), None, TRUE)),
              tlsSettings |-> None, reality |-> None ] ] >>
xui_inbound_id == NULL          \* cfg.xui_inbound_id (unset)
xui_inbound_remark == "main"    \* cfg.xui_inbound_remark

VARIABLES
    now,            \* time.time(), whole ticks
    users,          \* table users: set of tg_id
    payments,       \* table payments: sequence of rows, id = position
    subscriptions,  \* table subscriptions: sequence of rows, id = position
    panel_clients,  \* clients the x-ui panel holds: [inbound_id, client_uuid, expiry]
    task,           \* per handler coroutine: handler, position, locals
    last,           \* the call that finished last and its outcome
    wpc,            \* position of subscription_watcher
    expired,        \* subscription_watcher local `expired`
    widx,           \* index of `sub` within `expired`
    calls,          \* updates dispatched so far
    xui             \* the XUIClient or Database call followed on its own: position, arguments, result

vars == << now, users, payments, subscriptions, panel_clients,
           task, last, wpc, expired, widx, calls, xui >>

db == << users, payments, subscriptions >>
watcher == << wpc, expired, widx >>

\* ------------------------------------------------------------ ledger
RowIds(table) == 1..Len(table)

\* mutant: the lookup by payment never finds a row
get_subscription_by_payment_none(subs, payment_id) == {}

\* SELECT * FROM subscriptions WHERE payment_id = ?
get_subscription_by_payment(subs, payment_id) ==
    { i \in RowIds(subs) : subs[i].payment_id = payment_id }

\* mutant: the payment_id column without its UNIQUE constraint
payment_id_unique_off(subs, payment_id) == TRUE

\* payment_id TEXT NOT NULL UNIQUE
payment_id_unique(subs, payment_id) ==
    \A i \in RowIds(subs) : subs[i].payment_id # payment_id

\* INSERT INTO subscriptions ... 'active' ... revoked_at NULL
new_subscription(subs, tg_id, payment_id, inbound_id, client_uuid, client_email, vless_uri, starts_at, expires_at, created) ==
    [ id |-> Len(subs) + 1, tg_id |-> tg_id, payment_id |-> payment_id,
      inbound_id |-> inbound_id, client_uuid |-> client_uuid,
      client_email |-> client_email, vless_uri |-> vless_uri,
      status |-> "active", created_at |-> created, starts_at |-> starts_at,
      expires_at |-> expires_at, revoked_at |-> NULL ]

\* mutant: the payment row is inserted as already succeeded
new_payment_succeeded(pays, tg_id, provider, amount, currency, ts) ==
    [ id |-> Len(pays) + 1, tg_id |-> tg_id, provider |-> provider,
      amount |-> amount, currency |-> currency, status |-> "succeeded",
      created_at |-> ts, updated_at |-> ts ]

\* INSERT INTO payments ... 'pending'
new_payment(pays, tg_id, provider, amount, currency, ts) ==
    [ id |-> Len(pays) + 1, tg_id |-> tg_id, provider |-> provider,
      amount |-> amount, currency |-> currency, status |-> "pending",
      created_at |-> ts, updated_at |-> ts ]

\* UPDATE payments SET status = ?, updated_at = ? WHERE id = ?
set_payment_status(pays, payment_id, status, ts) ==
    [ i \in RowIds(pays) |->
        IF pays[i].id = payment_id
        THEN [ pays[i] EXCEPT !.status = status, !.updated_at = ts ]
        ELSE pays[i] ]

\* mutant: confirm_payment without the owner test
owner_mismatch_off(payment, tg_id) == FALSE

\* MockPaymentService.confirm_payment: `if payment.tg_id != tg_id: raise PermissionError`
owner_mismatch(payment, tg_id) == payment.tg_id # tg_id

\* mutant: the comparison of the query includes expires_at = at_ts
get_active_subscription_inclusive(subs, tg_id, at_ts) ==
    LET hit == { i \in RowIds(subs) : /\ subs[i].tg_id = tg_id
                                       /\ subs[i].status = "active"
                                       /\ subs[i].expires_at >= at_ts }
    IN { i \in hit : \A j \in hit : subs[j].created_at <= subs[i].created_at }

\* mutant: the query never finds an active subscription
get_active_subscription_none(subs, tg_id, at_ts) == {}

\* WHERE tg_id = ? AND status = 'active' AND expires_at > ?
\* ORDER BY created_at DESC LIMIT 1: the rows the query may return
get_active_subscription(subs, tg_id, at_ts) ==
    LET hit == { i \in RowIds(subs) : /\ subs[i].tg_id = tg_id
                                       /\ subs[i].status = "active"
                                       /\ subs[i].expires_at > at_ts }
    IN { i \in hit : \A j \in hit : subs[j].created_at <= subs[i].created_at }

\* mutant: the lookup never finds a pending payment
get_latest_pending_payment_none(pays, tg_id, provider, amount, currency) == {}

\* WHERE tg_id = ? AND provider = ? AND amount = ? AND currency = ?
\* AND status = 'pending' ORDER BY created_at DESC LIMIT 1
get_latest_pending_payment(pays, tg_id, provider, amount, currency) ==
    LET hit == { i \in RowIds(pays) : /\ pays[i].tg_id = tg_id
                                       /\ pays[i].provider = provider
                                       /\ pays[i].amount = amount
                                       /\ pays[i].currency = currency
                                       /\ pays[i].status = "pending" }
    IN { i \in hit : \A j \in hit : pays[j].created_at <= pays[i].created_at }

\* mutant: the query without its expires_at test
expired_active_all(subs, at_ts) ==
    { i \in RowIds(subs) : subs[i].status = "active" }

\* mutant: the comparison of the query made strict
expired_active_strict(subs, at_ts) ==
    { i \in RowIds(subs) : subs[i].status = "active" /\ subs[i].expires_at < at_ts }

\* WHERE status = 'active' AND expires_at <= ?
expired_active(subs, at_ts) ==
    { i \in RowIds(subs) : subs[i].status = "active" /\ subs[i].expires_at <= at_ts }

\* mutant: the query without its ORDER BY: the rows in any order
list_expired_active_subscriptions_unordered(subs, at_ts) ==
    LET hit == expired_active(subs, at_ts)
        n == Cardinality(hit)
    IN { [ k \in 1..n |-> subs[f[k]] ] :
            f \in { g \in [1..n -> hit] : \A a, b \in 1..n : a # b => g[a] # g[b] } }

\* ORDER BY expires_at ASC: every row order the query may produce
list_expired_active_subscriptions(subs, at_ts) ==
    LET hit == expired_active(subs, at_ts)
        n == Cardinality(hit)
    IN { [ k \in 1..n |-> subs[f[k]] ] :
            f \in { g \in [1..n -> hit] :
                      /\ \A a, b \in 1..n : a # b => g[a] # g[b]
                      /\ \A a, b \in 1..n :
                            a < b => subs[g[a]].expires_at <= subs[g[b]].expires_at } }

\* mutant: the UPDATE sets the status and leaves revoked_at alone
mark_subscription_expired_nostamp(subs, sub_id, ts) ==
    [ i \in RowIds(subs) |->
        IF subs[i].id = sub_id THEN [ subs[i] EXCEPT !.status = "expired" ] ELSE subs[i] ]

\* UPDATE subscriptions SET status = 'expired', revoked_at = ? WHERE id = ?
mark_subscription_expired(subs, sub_id, ts) ==
    [ i \in RowIds(subs) |->
        IF subs[i].id = sub_id
        THEN [ subs[i] EXCEPT !.status = "expired", !.revoked_at = ts ]
        ELSE subs[i] ]

\* ------------------------------------------------------------ panel client
\* `for ib in inbounds: if <test>: return ib`: the first position of `hits`,
\* 0 when the loop falls through
first_match(hits) ==
    IF hits = {} THEN 0 ELSE CHOOSE k \in hits : \A j \in hits : k <= j

\* str.lower() on the protocol names the panel may send
lower(str) ==
    CASE str = "VLESS" -> "vless"
      [] str = "VMess" -> "vmess"
      [] OTHER -> str

\* mutant: a requested id that is absent falls through to remark and protocol
resolve_inbound_fallthrough(inbounds, inbound_id, inbound_remark) ==
    LET by_id == first_match({ k \in RowIds(inbounds) : inbounds[k].id = inbound_id })
        by_remark == first_match({ k \in RowIds(inbounds) : inbounds[k].remark = inbound_remark })
        by_proto == first_match({ k \in RowIds(inbounds) : lower(inbounds[k].protocol) = "vless" })
    IN IF inbound_id # NULL /\ by_id # 0 THEN by_id
       ELSE IF inbound_remark # "" /\ by_remark # 0 THEN by_remark
       ELSE by_proto

\* the position in `inbounds` of the inbound returned, 0 when XUIError is raised
resolve_inbound(inbounds, inbound_id, inbound_remark) ==
    LET by_id == first_match({ k \in RowIds(inbounds) : inbounds[k].id = inbound_id })
        by_remark == first_match({ k \in RowIds(inbounds) : inbounds[k].remark = inbound_remark })
        by_proto == first_match({ k \in RowIds(inbounds) : lower(inbounds[k].protocol) = "vless" })
    IN IF inbound_id # NULL THEN by_id
       ELSE IF inbound_remark # "" /\ by_remark # 0 THEN by_remark
       ELSE by_proto

\* f"tg{cb.from_user.id}-{client_uuid[:8]}"
client_email_of(tg_id, client_uuid) == << "tg", tg_id, client_uuid >>

\* bool(value)
truthy(value) ==
    CASE value.t = "none" -> FALSE
      [] value.t = "str" -> value.v # ""
      [] value.t = "list" -> value.v # << >>
      [] value.t = "dict" -> value.v.other \/ \E k \in DOMAIN value.v \ {"other"} : value.v[k].t # "none"

\* a or b
Or(a, b) == IF truthy(a) THEN a ELSE b

\* urllib.parse.quote with safe='' on the strings of the model: letters, digits
\* and "_.-~" stay, "/" becomes %2F
quote(text) ==
    CASE text = "/x" -> "%2Fx"
      [] text = "/y" -> "%2Fy"
      [] OTHER -> text

\* `if spx:`
emit_spx(spx) == truthy(spx)

\* vless://{client_uuid}@{vpn_public_host}:{port}?{urlencode(query)}#{quote(label)}
\* as its parts; raised = "AttributeError" when `reality` is not a dict and
\* reality.get fails
build_vless_reality_uri(inbound, vpn_public_host, client_uuid, label) ==
    LET stream == inbound.stream_settings
        tls == IF stream.tlsSettings.t = "dict" THEN stream.tlsSettings.v
               ELSE [ realitySettings |-> None ]
        reality == Or(stream.realitySettings,
                      Or(tls.realitySettings,
                         Or(stream.reality, Dict(Reality(None, None, None, None, None, FALSE)))))
        r == reality.v
        pbk == Or(r.publicKey, Or(r.public_key, Str("")))
        server_names == Or(r.serverNames, Or(r.server_names, List(<< >>)))
        short_ids == Or(r.shortIds, Or(r.short_ids, List(<< >>)))
        fp == Or(r.fingerprint, Str("chrome"))
        spx == Or(r.spiderX, Or(r.spider_x, None))
        sni == IF server_names.t = "list" /\ server_names.v # << >> THEN server_names.v[1] ELSE ""
        sid == IF short_ids.t = "list" /\ short_ids.v # << >> THEN short_ids.v[1] ELSE ""
        query == << << "type", "tcp" >>, << "security", "reality" >>,
                    << "encryption", "none" >>, << "flow", "xtls-rprx-vision" >>,
                    << "fp", quote(fp.v) >>, << "sni", quote(sni) >>,
                    << "pbk", quote(pbk.v) >>, << "sid", quote(sid) >> >>
                 \o (IF emit_spx(spx) THEN << << "spx", quote(spx.v) >> >> ELSE << >>)
    IN IF reality.t # "dict"
       THEN [ raised |-> "AttributeError", client_uuid |-> client_uuid, host |-> vpn_public_host,
              port |-> inbound.port, query |-> << >>, label |-> label ]
       ELSE [ raised |-> "", client_uuid |-> client_uuid, host |-> vpn_public_host,
              port |-> inbound.port, query |-> query, label |-> label ]

\* ------------------------------------------------------------ handler tasks
Idle == [ op |-> "idle", pc |-> "idle", tg_id |-> 0, payment_id |-> 0,
          inbound |-> 0, client_uuid |-> 0, starts |-> 0, expires |-> 0,
          prior |-> 0, retry |-> FALSE ]

\* `last` before any call has finished
NoCall == [ op |-> "idle", tg_id |-> 0, payment_id |-> 0, prior |-> 0,
            retry |-> FALSE, result |-> "none", sub |-> 0 ]

\* `xui` while no call is followed on its own
NoXui == [ op |-> "idle" ]

TypeOK ==
    /\ now \in 1..MaxTime
    /\ users \subseteq Users
    /\ Len(payments) <= Cardinality(Persisted) + MaxCalls
    /\ calls \in 0..MaxCalls
    /\ wpc \in {"sleep", "delete_client", "mark_subscription_expired", "cancelled"}
    /\ widx \in 1..(Len(expired) + 1)
    /\ \A t \in Tasks : task[t].pc \in
          {"idle", "get_active_subscription", "get_latest_pending_payment",
           "create_payment", "confirm_payment", "set_payment_status",
           "get_subscription_by_payment", "resolve_inbound", "add_client",
           "create_subscription"}

Running == wpc # "cancelled"

\* the SQLite file outlives the process: init_schema creates the tables only IF
\* NOT EXISTS, so a run starts on the ledger earlier runs left. Here that is n
\* payments user 1 opened with buy and never confirmed (two buy calls in flight
\* together both pass get_latest_pending_payment and leave two pending rows)
RECURSIVE persisted(_)
persisted(n) ==
    IF n = 0 THEN << >>
    ELSE LET rows == persisted(n - 1)
         IN Append(rows, new_payment(rows, 1, "payment_mock", subscription_price_rub, "RUB", 1))

Init ==
    /\ now = 1
    /\ \E n \in Persisted :
          /\ users = IF n = 0 THEN {} ELSE {1}
          /\ payments = persisted(n)
    /\ subscriptions = << >>
    /\ panel_clients = {}
    /\ task = [ t \in Tasks |-> Idle ]
    /\ last = NoCall
    /\ wpc = "sleep"
    /\ expired = << >>
    /\ widx = 1
    /\ calls = 0
    /\ xui = NoXui

\* payments.status is free TEXT; the ledger model of the service names pending,
\* succeeded and failed
PaymentStatuses == {"pending", "succeeded", "failed"}

\* a start on a ledger whose one payment, of user 1, is in any of the statuses
StatusInit ==
    /\ now = 1
    /\ users = {1}
    /\ \E st \in PaymentStatuses :
          payments = << [ new_payment(<< >>, 1, "payment_mock", subscription_price_rub, "RUB", 1)
                            EXCEPT !.status = st ] >>
    /\ subscriptions = << >>
    /\ panel_clients = {}
    /\ task = [ t \in Tasks |-> Idle ]
    /\ last = NoCall
    /\ wpc = "sleep"
    /\ expired = << >>
    /\ widx = 1
    /\ calls = 0
    /\ xui = NoXui

\* a subscriptions row with id i, of user 1, as create_subscription and
\* mark_subscription_expired leave it
ledger_row(i, expires_at, status) ==
    LET row == [ new_subscription(<< >>, 1, i, 7, i, client_email_of(1, i), << "vless", i >>, 1, expires_at, 1) EXCEPT !.id = i ]
    IN IF status = "expired"
       THEN [ row EXCEPT !.status = "expired", !.revoked_at = expires_at ]
       ELSE row

\* every subscriptions table of up to MaxRows rows
Ledgers ==
    UNION { { [ i \in 1..n |-> ledger_row(i, f[i][1], f[i][2]) ] :
                f \in [ 1..n -> (1..(MaxTime + 1)) \X {"active", "expired"} ] } :
            n \in 0..MaxRows }

\* the watcher about to run its first listing on a ledger earlier runs left;
\* widx = 0: no listing has returned yet
ListInit ==
    /\ now \in 1..MaxTime
    /\ users = {1}
    /\ payments = << >>
    /\ subscriptions \in Ledgers
    /\ panel_clients = {}
    /\ task = [ t \in Tasks |-> Idle ]
    /\ last = NoCall
    /\ wpc = "sleep"
    /\ expired = << >>
    /\ widx = 0
    /\ calls = 0
    /\ xui = NoXui

\* the clients add_client left on the panel for the active rows of a ledger
clients_of(subs) ==
    { [ inbound_id |-> subs[i].inbound_id, client_uuid |-> subs[i].client_uuid,
        expiry_time_ms |-> subs[i].expires_at * 1000 ] :
        i \in { j \in RowIds(subs) : subs[j].status = "active" } }

\* the watcher starts on a ledger earlier runs left, the panel holding the
\* clients of its active rows
SweepInit ==
    /\ now = 1
    /\ users = {1}
    /\ payments = << >>
    /\ subscriptions \in Ledgers
    /\ panel_clients = clients_of(subscriptions)
    /\ task = [ t \in Tasks |-> Idle ]
    /\ last = NoCall
    /\ wpc = "sleep"
    /\ expired = << >>
    /\ widx = 1
    /\ calls = 0
    /\ xui = NoXui

\* a ledger whose subscriptions are all active, before any marking
MarkInit ==
    /\ SweepInit
    /\ \A i \in RowIds(subscriptions) : subscriptions[i].status = "active"

\* await db.mark_subscription_expired(sub_id) for any row of the ledger
db_mark_subscription_expired ==
    /\ \E sub_id \in RowIds(subscriptions) :
          subscriptions' = mark_subscription_expired(subscriptions, sub_id, now)
    /\ UNCHANGED << xui, now, users, payments, panel_clients, task, last, watcher, calls >>

\* a subscriptions row of any owner and creation time
query_row(i, tg_id, created_at, expires_at, status) ==
    [ ledger_row(i, expires_at, status) EXCEPT !.tg_id = tg_id, !.created_at = created_at ]

\* every subscriptions table of n rows of the users
QueryLedgers(n) ==
    { [ i \in 1..n |-> query_row(i, f[i][1], f[i][2], f[i][3], f[i][4]) ] :
        f \in [ 1..n -> Users \X {1, 2} \X (1..(MaxTime + 1)) \X {"active", "expired"} ] }

\* get_active_subscription(tg_id) and the listing about to run at the same time
\* on a ledger of up to MaxSubs rows; out = -1 and widx = 0: not returned yet
QueryInit ==
    /\ now \in 1..MaxTime
    /\ users = Users
    /\ payments = << >>
    /\ \E n \in 0..MaxSubs : subscriptions \in QueryLedgers(n)
    /\ panel_clients = {}
    /\ task = [ t \in Tasks |-> Idle ]
    /\ last = NoCall
    /\ wpc = "sleep"
    /\ expired = << >>
    /\ widx = 0
    /\ calls = 0
    /\ \E tg_id \in Users : xui = [ op |-> "get_active_subscription", tg_id |-> tg_id, out |-> -1 ]

\* ------------------------------------------------------------ XUIClient calls
\* every variable but xui as the constructors leave it
Unused ==
    /\ now = 1
    /\ users = {}
    /\ payments = << >>
    /\ subscriptions = << >>
    /\ panel_clients = {}
    /\ task = [ t \in Tasks |-> Idle ]
    /\ last = NoCall
    /\ wpc = "sleep"
    /\ expired = << >>
    /\ widx = 1
    /\ calls = 0

others == << now, users, payments, subscriptions, panel_clients,
             task, last, wpc, expired, widx, calls >>

\* the inbound lists list_inbounds may return: up to MaxInbounds inbounds, ids
\* and remarks that may repeat, protocols in any letter case
InboundLists ==
    UNION { [ 1..n -> [ id : {7, 8}, remark : {"main", ""}, port : {443},
                        protocol : {"vless", "VLESS", "vmess"} ] ] : n \in 0..MaxInbounds }

\* resolve_inbound about to choose from what list_inbounds returned; out = -1:
\* not returned yet
ResolveInit ==
    /\ Unused
    /\ \E inbounds \in InboundLists, inbound_id \in {NULL, 7, 9}, inbound_remark \in {"", "main", "spare"} :
          xui = [ op |-> "resolve_inbound", inbounds |-> inbounds, inbound_id |-> inbound_id,
                  inbound_remark |-> inbound_remark, out |-> -1 ]

\* XUIClient.resolve_inbound after `inbounds = await self.list_inbounds()`
xui_resolve_inbound ==
    /\ xui.op = "resolve_inbound"
    /\ xui.out = -1
    /\ xui' = [ xui EXCEPT !.out = resolve_inbound(xui.inbounds, xui.inbound_id, xui.inbound_remark) ]
    /\ UNCHANGED others

\* the realitySettings objects given to the builder
RealityDicts ==
    { Reality(pbk, sni, sid, fp, spx, other) :
        pbk \in {None, Str("PK")},
        sni \in {None, List(<< >>), List(<< "sni1" >>), Str("sni")},
        sid \in {None, List(<< "sid1" >>)},
        fp \in {None, Str("firefox")},
        spx \in {None, Str(""), Str("/x")},
        other \in BOOLEAN }

\* the stream settings given to the builder: realitySettings at the top, under
\* tlsSettings or as `reality`, each absent, a dict or something else
StreamSettings ==
    { [ realitySettings |-> top, tlsSettings |-> tls, reality |-> alias ] :
        top \in {None, Str("none")} \cup { Dict(r) : r \in RealityDicts },
        tls \in { None, Str("tls"), Dict([ realitySettings |-> None ]),
                  Dict([ realitySettings |-> Dict(Reality(Str("PK2"), None, None, None, Str("/y"), TRUE)) ]) },
        alias \in { None, List(<< "reality" >>), Dict(Reality(None, List(<< "sni3" >>), None, None, None, TRUE)) } }

\* build_vless_reality_uri about to run on an inbound; raised = "unset": not
\* returned yet
UriInit ==
    /\ Unused
    /\ \E stream \in StreamSettings :
          xui = [ op |-> "build_vless_reality_uri",
                  inbound |-> [ id |-> 7, remark |-> "main", port |-> 443, protocol |-> "vless",
                                stream_settings |-> stream ],
                  out |-> [ raised |-> "unset" ] ]

\* XUIClient.build_vless_reality_uri(inbound=..., vpn_public_host=..., client_uuid=..., label=...)
xui_build_vless_reality_uri ==
    /\ xui.op = "build_vless_reality_uri"
    /\ xui.out.raised = "unset"
    /\ xui' = [ xui EXCEPT !.out = build_vless_reality_uri(xui.inbound, "vpn_public_host", 1,
                                                           client_email_of(1, 1)) ]
    /\ UNCHANGED others

\* what the panel may answer to one HTTP request: the status code and the
\* "success" member of the JSON body ("none": no such member or no JSON)
Responses == [ status : {200, 401, 403, 500}, success : {"true", "false", "none"} ]

\* one of list_inbounds, add_client, delete_client about to start on a client
\* whose session flag is either way
XuiInit ==
    /\ Unused
    /\ \E op \in {"list_inbounds", "add_client", "delete_client"}, logged_in \in BOOLEAN :
          xui = [ op |-> op, variant |-> "A", logged_in |-> logged_in,
                  pc |-> IF logged_in THEN "request" ELSE "login",
                  trace |-> << >>, result |-> "none" ]

\* the HTTP exchange is appended to the history of the call
sent(kind, resp) ==
    Append(xui.trace, [ kind |-> kind, variant |-> xui.variant,
                        status |-> resp.status, success |-> resp.success ])

\* _request returns `resp` to the operation, which runs to its end or, in
\* delete_client after variant A, to the _request of variant B
returned(resp) ==
    LET raise == [ xui EXCEPT !.pc = "done", !.result = "XUIError" ]
        return == [ xui EXCEPT !.pc = "done", !.result = "ok" ]
    IN CASE xui.op = "list_inbounds" ->
              IF resp.status >= 400 THEN raise ELSE return
         [] xui.op = "add_client" ->
              IF resp.status >= 400 THEN raise
              ELSE IF resp.success = "false" THEN raise
              ELSE return
         [] xui.op = "delete_client" /\ xui.variant = "A" ->
              IF resp.status < 400 THEN return
              ELSE [ xui EXCEPT !.variant = "B",
                                !.pc = IF xui.logged_in THEN "request" ELSE "login" ]
         [] xui.op = "delete_client" /\ xui.variant = "B" ->
              IF resp.status >= 400 THEN raise
              ELSE IF resp.success = "false" THEN raise
              ELSE return

\* XUIClient.login, called by _request before the request (`if not
\* self._logged_in`) or after a 401/403
xui_login ==
    /\ xui.op \in {"list_inbounds", "add_client", "delete_client"}
    /\ xui.pc \in {"login", "relogin"}
    /\ \E resp \in Responses :
         xui' = IF resp.status >= 400 \/ resp.success = "false"
                THEN [ xui EXCEPT !.pc = "done", !.result = "XUIError",
                                  !.trace = sent("login", resp) ]
                ELSE [ xui EXCEPT !.pc = IF xui.pc = "login" THEN "request" ELSE "retry",
                                  !.logged_in = TRUE,
                                  !.trace = sent("login", resp) ]
    /\ UNCHANGED others

\* mutant: a 401/403 answer to the repeated request starts another re-login
xui_retry_again ==
    /\ xui.op \in {"list_inbounds", "add_client", "delete_client"}
    /\ xui.pc = "retry"
    /\ \E resp \in Responses :
         xui' = IF resp.status \in {401, 403}
                THEN [ xui EXCEPT !.pc = "relogin", !.logged_in = FALSE,
                                  !.trace = sent("request", resp) ]
                ELSE [ returned(resp) EXCEPT !.trace = sent("request", resp) ]
    /\ UNCHANGED others

\* _request: resp = await self._client.request(...); on 401/403 the session
\* flag is dropped and login follows
xui_request ==
    /\ xui.op \in {"list_inbounds", "add_client", "delete_client"}
    /\ xui.pc = "request"
    /\ \E resp \in Responses :
         xui' = IF resp.status \in {401, 403}
                THEN [ xui EXCEPT !.pc = "relogin", !.logged_in = FALSE,
                                  !.trace = sent("request", resp) ]
                ELSE [ returned(resp) EXCEPT !.trace = sent("request", resp) ]
    /\ UNCHANGED others

\* _request: the request repeated after the re-login; its response is returned
\* whatever it is
xui_retry ==
    /\ xui.op \in {"list_inbounds", "add_client", "delete_client"}
    /\ xui.pc = "retry"
    /\ \E resp \in Responses :
         xui' = [ returned(resp) EXCEPT !.trace = sent("request", resp) ]
    /\ UNCHANGED others

XuiNext ==
    \/ xui_login
    \/ xui_request
    \/ xui_retry

\* ------------------------------------------------------------ concurrent _request
\* one _request per handler coroutine, all on the one XUIClient; first and
\* second are the status codes of the request and of its repetition (0: not
\* sent), out the status code of the response returned (0: none, -1: XUIError)
ConcInit ==
    /\ Unused
    /\ \E logged_in \in BOOLEAN :
          xui = [ op |-> "_request", logged_in |-> logged_in,
                  call |-> [ c \in Tasks |-> [ pc |-> "start", first |-> 0, second |-> 0,
                                               logins |-> 0, out |-> 0 ] ] ]

\* _request is entered: `if not self._logged_in:` decides between login and the
\* request, whose response is then awaited
req_start(c) ==
    /\ xui.op = "_request"
    /\ xui.call[c].pc = "start"
    /\ xui' = [ xui EXCEPT !.call[c].pc = IF xui.logged_in THEN "request" ELSE "login" ]
    /\ UNCHANGED others

\* mutant: login without `self._logged_in = True`
req_login_noflag(c) ==
    /\ xui.op = "_request"
    /\ xui.call[c].pc \in {"login", "relogin"}
    /\ \E accepted \in BOOLEAN :
         xui' = IF accepted
                THEN [ xui EXCEPT !.call[c].logins = @ + 1,
                                  !.call[c].pc = IF @ = "login" THEN "request" ELSE "retry" ]
                ELSE [ xui EXCEPT !.call[c].pc = "done", !.call[c].out = -1 ]
    /\ UNCHANGED others

\* the response to POST login arrives: XUIError, or the session flag is set and
\* the request (or its repetition) is sent
req_login(c) ==
    /\ xui.op = "_request"
    /\ xui.call[c].pc \in {"login", "relogin"}
    /\ \E accepted \in BOOLEAN :
         xui' = IF accepted
                THEN [ xui EXCEPT !.logged_in = TRUE,
                                  !.call[c].logins = @ + 1,
                                  !.call[c].pc = IF @ = "login" THEN "request" ELSE "retry" ]
                ELSE [ xui EXCEPT !.call[c].pc = "done", !.call[c].out = -1 ]
    /\ UNCHANGED others

\* the response to the request arrives: on 401/403 the session flag is dropped
\* and login is awaited, otherwise the response is returned
req_request(c) ==
    /\ xui.op = "_request"
    /\ xui.call[c].pc = "request"
    /\ \E status \in {200, 401, 403, 500} :
         xui' = IF status \in {401, 403}
                THEN [ xui EXCEPT !.logged_in = FALSE,
                                  !.call[c].first = status,
                                  !.call[c].pc = "relogin" ]
                ELSE [ xui EXCEPT !.call[c].first = status,
                                  !.call[c].out = status,
                                  !.call[c].pc = "done" ]
    /\ UNCHANGED others

\* the response to the repeated request arrives and is returned
req_retry(c) ==
    /\ xui.op = "_request"
    /\ xui.call[c].pc = "retry"
    /\ \E status \in {200, 401, 403, 500} :
         xui' = [ xui EXCEPT !.call[c].second = status,
                             !.call[c].out = status,
                             !.call[c].pc = "done" ]
    /\ UNCHANGED others

ConcNext ==
    \E c \in Tasks :
       \/ req_start(c)
       \/ req_login(c)
       \/ req_request(c)
       \/ req_retry(c)

\* time.time() advances
Tick ==
    /\ Running
    /\ now < MaxTime
    /\ now' = now + 1
    /\ UNCHANGED << xui, db, panel_clients, task, last, watcher, calls >>

\* the handler returns or raises: its frame is dropped and the coroutine is free
\* again; `last` keeps what the call was and how it ended
Finish(t, result, sub) ==
    /\ task' = [ task EXCEPT ![t] = Idle ]
    /\ last' = [ op |-> task[t].op, tg_id |-> task[t].tg_id,
                 payment_id |-> task[t].payment_id, prior |-> task[t].prior,
                 retry |-> task[t].retry, result |-> result, sub |-> sub ]

\* the handler goes on to its next await
Goto(t, pc) ==
    /\ task' = [ task EXCEPT ![t].pc = pc ]
    /\ UNCHANGED last

\* history: the subscription rows a payment has when a call for it starts
RowsOfPayment(p) == { i \in RowIds(subscriptions) : subscriptions[i].payment_id = p }

\* history: a pay_confirm update for payment p arrives while no handler runs and
\* the call that finished last was a pay_confirm of p that a panel failure ended
RetryOf(p) ==
    /\ \A t \in Tasks : task[t].pc = "idle"
    /\ last.op = "pay_confirm"
    /\ last.payment_id = p
    /\ last.result = "XUIError"

\* some row of a query result (LIMIT 1 / fetchone), NULL for None
OneOf(rows) == IF rows = {} THEN NULL ELSE CHOOSE i \in rows : TRUE

\* uuid.uuid4(): a value no client, no row and no running handler holds
new_client_uuid ==
    LET held == { c.client_uuid : c \in panel_clients }
                \cup { subscriptions[i].client_uuid : i \in RowIds(subscriptions) }
                \cup { task[t].client_uuid : t \in Tasks }
    IN CHOOSE k \in 1..(Cardinality(held) + 1) :
          k \notin held /\ \A j \in 1..(k - 1) : j \in held

\* await db.get_active_subscription(tg_id): at_ts = now_ts(), fetchone
db_get_active_subscription ==
    /\ xui.op = "get_active_subscription"
    /\ xui.out = -1
    /\ xui' = [ xui EXCEPT !.out = OneOf(get_active_subscription(subscriptions, xui.tg_id, now)) ]
    /\ UNCHANGED others

\* the pending payments create_payment would resume for an identity
PendingOf(tg_id) ==
    { i \in RowIds(payments) : /\ payments[i].tg_id = tg_id
                               /\ payments[i].provider = "payment_mock"
                               /\ payments[i].amount = subscription_price_rub
                               /\ payments[i].currency = "RUB"
                               /\ payments[i].status = "pending" }

\* The dispatcher hands an update to a free handler coroutine, which runs up to
\* its second await: `await db.ensure_user(...)` (INSERT OR IGNORE INTO users)
\* and, in start, the test `message.from_user.id in cfg.admin_tg_ids`.
\* ensure_admin_subscription has no ensure_user and returns at once for a tg_id
\* outside cfg.admin_tg_ids.  Coroutines are interchangeable, so an update
\* goes to the first free one.
Dispatch(t) ==
    /\ Running
    /\ task[t].pc = "idle"
    /\ \A t2 \in Tasks : t2 < t => task[t2].pc # "idle"
    /\ calls < MaxCalls
    /\ calls' = calls + 1
    /\ \E u \in Users, op \in {"buy", "start", "pay_confirm", "ensure_admin_subscription"} :
         \E p \in (IF op = "pay_confirm" THEN RowIds(payments) ELSE {0}) :
            LET frame == [ Idle EXCEPT !.op = op, !.tg_id = u, !.payment_id = p,
                                       !.prior = OneOf(RowsOfPayment(p)),
                                       !.retry = (op = "pay_confirm" /\ RetryOf(p)) ]
            IN /\ users' = IF op = "ensure_admin_subscription" THEN users ELSE users \cup {u}
               /\ IF op \in {"start", "ensure_admin_subscription"} /\ u \notin admin_tg_ids
                  THEN /\ last' = [ op |-> op, tg_id |-> u, payment_id |-> p, prior |-> NULL,
                                    retry |-> FALSE, result |-> "menu", sub |-> NULL ]
                       /\ UNCHANGED task
                  ELSE /\ task' = [ task EXCEPT ![t] =
                                     [ frame EXCEPT !.pc = IF op = "pay_confirm"
                                                           THEN "confirm_payment"
                                                           ELSE "get_active_subscription" ] ]
                       /\ UNCHANGED last
    /\ UNCHANGED << xui, now, payments, subscriptions, panel_clients, watcher >>

\* await db.get_active_subscription(tg_id) in buy, start and
\* ensure_admin_subscription.  Database has no create_or_get_admin_grant_payment:
\* the attribute lookup that follows a None result raises AttributeError.
get_active(t) ==
    /\ Running
    /\ task[t].pc = "get_active_subscription"
    /\ LET active == OneOf(get_active_subscription(subscriptions, task[t].tg_id, now))
       IN IF active # NULL
          THEN Finish(t, IF task[t].op = "buy" THEN "active" ELSE "menu", active)
          ELSE IF task[t].op = "buy"
          THEN Goto(t, "get_latest_pending_payment")
          ELSE Finish(t, "AttributeError", NULL)
    /\ UNCHANGED << xui, now, db, panel_clients, watcher, calls >>

\* MockPaymentService.create_payment: existing = await get_latest_pending_payment(...);
\* CreatePaymentResult(payment=existing, already_existed=True)
get_pending(t) ==
    /\ Running
    /\ task[t].pc = "get_latest_pending_payment"
    /\ LET existing == OneOf(get_latest_pending_payment(payments, task[t].tg_id,
                                "payment_mock", subscription_price_rub, "RUB"))
       IN IF existing # NULL
          THEN Finish(t, "payment_existed", existing)
          ELSE Goto(t, "create_payment")
    /\ UNCHANGED << xui, now, db, panel_clients, watcher, calls >>

\* MockPaymentService.create_payment: payment = await self._db.create_payment(...);
\* CreatePaymentResult(payment=payment, already_existed=False)
create_payment(t) ==
    /\ Running
    /\ task[t].pc = "create_payment"
    /\ payments' = Append(payments, new_payment(payments, task[t].tg_id, "payment_mock",
                                                subscription_price_rub, "RUB", now))
    /\ Finish(t, "payment_created", Len(payments) + 1)
    /\ UNCHANGED << xui, now, users, subscriptions, panel_clients, watcher, calls >>

\* mutant: confirm_payment without `if payment.status != "pending": return payment`
confirm_payment_any(t) ==
    /\ Running
    /\ task[t].pc = "confirm_payment"
    /\ LET payment == payments[task[t].payment_id]
       IN IF owner_mismatch(payment, task[t].tg_id) THEN Finish(t, "PermissionError", NULL)
          ELSE IF payment.status = "succeeded" THEN Goto(t, "get_subscription_by_payment")
          ELSE Goto(t, "set_payment_status")
    /\ UNCHANGED << xui, now, db, panel_clients, watcher, calls >>

\* mutant: a payment that already succeeded is reported and not provisioned again
confirm_payment_stop(t) ==
    /\ Running
    /\ task[t].pc = "confirm_payment"
    /\ LET payment == payments[task[t].payment_id]
       IN IF owner_mismatch(payment, task[t].tg_id) THEN Finish(t, "PermissionError", NULL)
          ELSE IF payment.status # "pending" THEN Finish(t, "not_succeeded", NULL)
          ELSE Goto(t, "set_payment_status")
    /\ UNCHANGED << xui, now, db, panel_clients, watcher, calls >>

\* MockPaymentService.confirm_payment up to its first return, raise or await, and
\* pay_confirm's `if payment.status != "succeeded": return`
confirm_payment(t) ==
    /\ Running
    /\ task[t].pc = "confirm_payment"
    /\ LET payment == payments[task[t].payment_id]
       IN IF owner_mismatch(payment, task[t].tg_id) THEN Finish(t, "PermissionError", NULL)
          ELSE IF payment.status = "succeeded" THEN Goto(t, "get_subscription_by_payment")
          ELSE IF payment.status # "pending" THEN Finish(t, "not_succeeded", NULL)
          ELSE Goto(t, "set_payment_status")
    /\ UNCHANGED << xui, now, db, panel_clients, watcher, calls >>

\* return await self._db.set_payment_status(payment_id, "succeeded")
confirm_set_status(t) ==
    /\ Running
    /\ task[t].pc = "set_payment_status"
    /\ payments' = set_payment_status(payments, task[t].payment_id, "succeeded", now)
    /\ Goto(t, "get_subscription_by_payment")
    /\ UNCHANGED << xui, now, users, subscriptions, panel_clients, watcher, calls >>

\* existing_sub = await db.get_subscription_by_payment(payment.id)
get_existing_sub(t) ==
    /\ Running
    /\ task[t].pc = "get_subscription_by_payment"
    /\ LET existing_sub == OneOf(get_subscription_by_payment(subscriptions, task[t].payment_id))
       IN IF existing_sub # NULL
          THEN Finish(t, "existing", existing_sub)
          ELSE Goto(t, "resolve_inbound")
    /\ UNCHANGED << xui, now, db, panel_clients, watcher, calls >>

\* inbound = await xui.resolve_inbound(...)
pay_resolve_inbound(t) ==
    /\ Running
    /\ task[t].pc = "resolve_inbound"
    /\ \E http_ok \in BOOLEAN :
         LET ib == resolve_inbound(Inbounds, xui_inbound_id, xui_inbound_remark)
         IN IF http_ok /\ ib # 0
            THEN /\ task' = [ task EXCEPT ![t].pc = "add_client", ![t].inbound = ib ]
                 /\ UNCHANGED last
            ELSE Finish(t, "XUIError", NULL)
    /\ UNCHANGED << xui, now, db, panel_clients, watcher, calls >>

\* mutant: add_client inside try/except: a panel failure is logged and the
\* handler goes on to create_subscription
pay_add_client_swallow(t) ==
    /\ Running
    /\ task[t].pc = "add_client"
    /\ \E panel_ok \in BOOLEAN :
         panel_clients' = IF panel_ok
                          THEN panel_clients \cup
                                 { [ inbound_id |-> Inbounds[task[t].inbound].id,
                                     client_uuid |-> new_client_uuid,
                                     expiry_time_ms |-> (now + ValidityTicks) * 1000 ] }
                          ELSE panel_clients
    /\ task' = [ task EXCEPT ![t].pc = "create_subscription",
                             ![t].client_uuid = new_client_uuid,
                             ![t].starts = now,
                             ![t].expires = now + ValidityTicks ]
    /\ UNCHANGED last
    /\ UNCHANGED << xui, now, db, watcher, calls >>

\* client_uuid = new_client_uuid(); starts = now_ts();
\* expires = starts + cfg.subscription_days * 86400;
\* await xui.add_client(inbound_id=inbound.id, client_uuid=..., expiry_time_ms=expires * 1000)
pay_add_client(t) ==
    /\ Running
    /\ task[t].pc = "add_client"
    /\ \E panel_ok \in BOOLEAN :
         IF panel_ok
         THEN /\ panel_clients' = panel_clients \cup
                    { [ inbound_id |-> Inbounds[task[t].inbound].id,
                        client_uuid |-> new_client_uuid,
                        expiry_time_ms |-> (now + ValidityTicks) * 1000 ] }
              /\ task' = [ task EXCEPT ![t].pc = "create_subscription",
                                       ![t].client_uuid = new_client_uuid,
                                       ![t].starts = now,
                                       ![t].expires = now + ValidityTicks ]
              /\ UNCHANGED last
         ELSE /\ Finish(t, "XUIError", NULL)
              /\ UNCHANGED panel_clients
    /\ UNCHANGED << xui, now, db, watcher, calls >>

\* vless_uri = xui.build_vless_reality_uri(...); sub = await db.create_subscription(...):
\* the INSERT raises IntegrityError when payment_id is taken
pay_create_subscription(t) ==
    /\ Running
    /\ task[t].pc = "create_subscription"
    /\ LET inbound == Inbounds[task[t].inbound]
           client_email == client_email_of(task[t].tg_id, task[t].client_uuid)
           vless_uri == build_vless_reality_uri(inbound, "vpn_public_host",
                                                task[t].client_uuid, client_email)
       IN IF payment_id_unique(subscriptions, task[t].payment_id)
          THEN /\ subscriptions' = Append(subscriptions,
                      new_subscription(subscriptions, task[t].tg_id, task[t].payment_id,
                                       inbound.id, task[t].client_uuid, client_email,
                                       vless_uri, task[t].starts, task[t].expires, now))
               /\ Finish(t, "subscription", Len(subscriptions) + 1)
          ELSE /\ Finish(t, "IntegrityError", NULL)
               /\ UNCHANGED subscriptions
    /\ UNCHANGED << xui, now, users, payments, panel_clients, watcher, calls >>

\* the dispatcher when updates do not overlap: the next update arrives after the
\* handler of the one before has returned
SerialDispatch(t) ==
    /\ \A t2 \in Tasks : task[t2].pc = "idle"
    /\ Dispatch(t)

\* a ledger that calls which did not overlap have left: at most one pending
\* payment of user 1
SerialInit ==
    /\ Init
    /\ Len(payments) <= 1

\* ------------------------------------------------------------ subscription_watcher
\* asyncio.sleep returns and `expired = await db.list_expired_active_subscriptions(
\* at_ts=now_ts())` runs; an exception of the store ends the iteration
watcher_list ==
    /\ wpc = "sleep"
    /\ \E store_ok \in BOOLEAN :
         IF store_ok
         THEN \E rows \in list_expired_active_subscriptions(subscriptions, now) :
                /\ expired' = rows
                /\ widx' = 1
                /\ wpc' = IF rows = << >> THEN "sleep" ELSE "delete_client"
         ELSE UNCHANGED << wpc, expired, widx >>
    /\ UNCHANGED << xui, now, db, panel_clients, task, last, calls >>

\* mutant: a delete_client failure skips mark_subscription_expired for that `sub`
watcher_delete_client_skip ==
    /\ wpc = "delete_client"
    /\ \E panel_ok \in BOOLEAN :
         IF panel_ok
         THEN /\ panel_clients' =
                    { c \in panel_clients : ~ ( /\ c.inbound_id = expired[widx].inbound_id
                                                 /\ c.client_uuid = expired[widx].client_uuid ) }
              /\ wpc' = "mark_subscription_expired"
              /\ UNCHANGED widx
         ELSE /\ widx' = widx + 1
              /\ wpc' = IF widx < Len(expired) THEN "delete_client" ELSE "sleep"
              /\ UNCHANGED panel_clients
    /\ UNCHANGED << xui, now, db, task, last, expired, calls >>

\* await xui.delete_client(inbound_id=sub.inbound_id, client_uuid=sub.client_uuid)
\* inside try / except Exception: log.warning
watcher_delete_client ==
    /\ wpc = "delete_client"
    /\ \E panel_ok \in BOOLEAN :
         panel_clients' =
            IF panel_ok
            THEN { c \in panel_clients : ~ ( /\ c.inbound_id = expired[widx].inbound_id
                                              /\ c.client_uuid = expired[widx].client_uuid ) }
            ELSE panel_clients
    /\ wpc' = "mark_subscription_expired"
    /\ UNCHANGED << xui, now, db, task, last, expired, widx, calls >>

\* mutant: the iteration without its outer try/except: an exception of the store
\* ends the coroutine
watcher_mark_expired_raise ==
    /\ wpc = "mark_subscription_expired"
    /\ \E store_ok \in BOOLEAN :
         IF store_ok
         THEN /\ subscriptions' = mark_subscription_expired(subscriptions, expired[widx].id, now)
              /\ widx' = widx + 1
              /\ wpc' = IF widx < Len(expired) THEN "delete_client" ELSE "sleep"
         ELSE /\ wpc' = "raised"
              /\ UNCHANGED << subscriptions, widx >>
    /\ UNCHANGED << xui, now, users, payments, panel_clients, task, last, expired, calls >>

\* await db.mark_subscription_expired(sub.id), then the next `sub` or asyncio.sleep;
\* an exception of the store leaves the for loop for the outer except
watcher_mark_expired ==
    /\ wpc = "mark_subscription_expired"
    /\ \E store_ok \in BOOLEAN :
         IF store_ok
         THEN /\ subscriptions' = mark_subscription_expired(subscriptions, expired[widx].id, now)
              /\ widx' = widx + 1
              /\ wpc' = IF widx < Len(expired) THEN "delete_client" ELSE "sleep"
         ELSE /\ wpc' = "sleep"
              /\ UNCHANGED << subscriptions, widx >>
    /\ UNCHANGED << xui, now, users, payments, panel_clients, task, last, expired, calls >>

\* main's finally: watcher_task.cancel() throws CancelledError into the await the
\* watcher is suspended at; CancelledError is not an Exception, so no except
\* clause of the watcher catches it
watcher_cancel ==
    /\ Running
    /\ wpc' = "cancelled"
    /\ UNCHANGED << xui, now, db, panel_clients, task, last, expired, widx, calls >>

\* ================================================================ claims
InFlight(t) == task[t].pc # "idle"
Owner(t) == payments[task[t].payment_id].tg_id = task[t].tg_id
StepOf(t) == task'[t] # task[t]
Returns(t) == InFlight(t) /\ task'[t].pc = "idle"
LastOwner == payments[last.payment_id].tg_id = last.tg_id
ActiveNow(u) == { i \in RowIds(subscriptions) : /\ subscriptions[i].tg_id = u
                                                 /\ subscriptions[i].status = "active"
                                                 /\ subscriptions[i].expires_at > now }

\* C1: a pay_confirm call of the owner that starts when its payment already has a
\* subscription (an earlier call returned it) adds no panel client and no
\* subscription row in any of its steps and returns that same subscription, id
\* and vless_uri as they were, the single row of the payment.
C1_ReplayReturnsSame ==
    [][ /\ \A i \in RowIds(subscriptions) :
              /\ subscriptions'[i].id = subscriptions[i].id
              /\ subscriptions'[i].vless_uri = subscriptions[i].vless_uri
        /\ \A t \in Tasks :
              ( /\ task[t].op = "pay_confirm"
                /\ task[t].prior # NULL
                /\ Owner(t)
                /\ StepOf(t) )
              => /\ panel_clients' = panel_clients
                 /\ subscriptions' = subscriptions
                 /\ Returns(t)
                      => /\ last'.result = "existing"
                         /\ last'.sub = task[t].prior
                         /\ RowsOfPayment(task[t].payment_id) = {task[t].prior} ]_vars

C1_Witness ==
    /\ last.op = "pay_confirm"
    /\ LastOwner
    /\ last.prior # NULL
    /\ last.result = "existing"
    /\ last.sub = last.prior

\* C2: no two subscription rows reference the same payment_id.
C2_OneSubscriptionPerPayment ==
    \A i, j \in RowIds(subscriptions) :
        i # j => subscriptions[i].payment_id # subscriptions[j].payment_id

\* the constraint has rejected the INSERT of a second concurrent pay_confirm
C2_Witness ==
    /\ last.result = "IntegrityError"
    /\ last.prior = NULL
    /\ Cardinality(RowsOfPayment(last.payment_id)) = 1

\* C3: a pay_confirm call whose create_subscription is rejected by the uniqueness
\* constraint does not fail with that rejection: it returns the subscription the
\* other call committed.
C3_ConflictSwallowed ==
    last.op = "pay_confirm" => last.result # "IntegrityError"

\* C4: every step of a pay_confirm call made by someone who does not own the
\* payment is its last one: it ends the call with PermissionError and leaves
\* the payments, the subscriptions and the panel's clients as they were.
C4_ForeignPaymentForbidden ==
    [][ \A t \in Tasks :
          ( /\ task[t].op = "pay_confirm"
            /\ ~ Owner(t)
            /\ StepOf(t) )
          => /\ Returns(t)
             /\ last'.result = "PermissionError"
             /\ payments' = payments
             /\ subscriptions' = subscriptions
             /\ panel_clients' = panel_clients ]_vars

C4_Witness ==
    /\ last.op = "pay_confirm"
    /\ ~ LastOwner
    /\ last.result = "PermissionError"
    /\ payments[last.payment_id].status = "pending"

\* C5: a finished privileged grant (start or ensure_admin_subscription) of an
\* allow-listed identity did not fail and leaves the identity with exactly one
\* active subscription.
C5_GrantLeavesOneSubscription ==
    ( /\ last.op \in {"start", "ensure_admin_subscription"}
      /\ last.tg_id \in admin_tg_ids )
    => /\ last.result = "menu"
       /\ Cardinality(ActiveNow(last.tg_id)) = 1

\* C6: when a sweep has gone through its whole list (no store failure ended it),
\* every subscription it listed has status expired and a revoked_at stamp,
\* whether or not delete_client raised for it.
C6_SweepMarksAllListed ==
    (wpc = "sleep" /\ widx > Len(expired))
    => \A k \in RowIds(expired) :
          /\ subscriptions[expired[k].id].status = "expired"
          /\ subscriptions[expired[k].id].revoked_at # NULL

\* a completed sweep one of whose delete_client calls raised: the client is
\* still on the panel
C6_Witness ==
    /\ wpc = "sleep"
    /\ expired # << >>
    /\ widx > Len(expired)
    /\ \E k \in RowIds(expired) :
          \E c \in panel_clients : /\ c.inbound_id = expired[k].inbound_id
                                   /\ c.client_uuid = expired[k].client_uuid

\* C7: the watcher task stops only at the sleep boundary: while a sweep is in
\* flight (a listed subscription is still to be deleted or marked) cancellation
\* does not end the task.
C7_CancelOnlyAtSleep ==
    [][ wpc' = "cancelled" => wpc \in {"sleep", "cancelled"} ]_vars

\* C8: an identity never has two subscriptions with status active and
\* expires_at > now.
C8_OneActivePerIdentity ==
    \A u \in Users : Cardinality(ActiveNow(u)) <= 1

\* C9: a payment row is inserted with status pending, rows are never removed, and
\* a status changes only from pending, to succeeded or failed.
C9_PaymentStatusMonotone ==
    [][ /\ Len(payments') >= Len(payments)
        /\ \A i \in RowIds(payments') :
              IF i \in RowIds(payments)
              THEN payments'[i].status # payments[i].status
                      => /\ payments[i].status = "pending"
                         /\ payments'[i].status \in {"succeeded", "failed"}
              ELSE payments'[i].status = "pending" ]_vars

\* a confirm call by another identity has finished on a payment that had succeeded
C9_Witness ==
    /\ last.op = "pay_confirm"
    /\ payments[last.payment_id].status = "succeeded"
    /\ last.result = "PermissionError"

\* C10: a subscription row is inserted active with revoked_at NULL; its status
\* changes only from active to expired; revoked_at changes only in that step;
\* status = expired exactly when revoked_at is not NULL.
C10_StatusRevokedAt ==
    \A i \in RowIds(subscriptions) :
        /\ subscriptions[i].status \in {"active", "expired"}
        /\ subscriptions[i].status = "expired" <=> subscriptions[i].revoked_at # NULL

C10_Step ==
    /\ Len(subscriptions') >= Len(subscriptions)
    /\ \A i \in RowIds(subscriptions') :
          IF i \in RowIds(subscriptions)
          THEN /\ subscriptions'[i].status # subscriptions[i].status
                    => /\ subscriptions[i].status = "active"
                       /\ subscriptions'[i].status = "expired"
               /\ subscriptions'[i].revoked_at # subscriptions[i].revoked_at
                    => /\ subscriptions[i].status = "active"
                       /\ subscriptions'[i].status = "expired"
          ELSE /\ subscriptions'[i].status = "active"
               /\ subscriptions'[i].revoked_at = NULL

C10_SubscriptionLifecycle == [] C10_StatusRevokedAt /\ [][C10_Step]_vars

C10_Witness ==
    \E i \in RowIds(subscriptions) :
        /\ subscriptions[i].status = "expired"
        /\ subscriptions[i].revoked_at = now
        /\ subscriptions[i].expires_at <= now
        /\ wpc = "delete_client"

\* C11: a pay_confirm call that a panel failure (resolve_inbound or add_client)
\* ends writes no payment and no subscription row; the owner's next pay_confirm
\* call for that payment finds it succeeded without a subscription, goes through
\* the whole provisioning again and, when the panel succeeds, inserts the
\* payment's single subscription.
C11_Step ==
    \A t \in Tasks :
       /\ ( Returns(t) /\ task[t].op = "pay_confirm" /\ last'.result = "XUIError" )
            => /\ task[t].pc \in {"resolve_inbound", "add_client"}
               /\ subscriptions' = subscriptions
               /\ payments' = payments
       /\ ( task[t].op = "pay_confirm" /\ task[t].retry /\ Owner(t) /\ StepOf(t)
            /\ RowsOfPayment(task[t].payment_id) = {} )
            => /\ payments' = payments
               /\ task[t].pc = "confirm_payment"
                    => task'[t].pc = "get_subscription_by_payment"
               /\ task[t].pc = "get_subscription_by_payment"
                    => task'[t].pc = "resolve_inbound"
               /\ task[t].pc = "create_subscription"
                    => /\ Returns(t)
                       /\ last'.result = "subscription"
                       /\ last'.sub = Len(subscriptions) + 1
                       /\ { i \in RowIds(subscriptions') :
                              subscriptions'[i].payment_id = task[t].payment_id }
                            = { Len(subscriptions) + 1 }

C11_RetryProvisions == [][C11_Step]_vars

\* the retry after a panel failure has returned the subscription it created
C11_Witness ==
    /\ last.op = "pay_confirm"
    /\ last.retry
    /\ LastOwner
    /\ last.result = "subscription"
    /\ RowsOfPayment(last.payment_id) = {last.sub}
    /\ subscriptions[last.sub].status = "active"

\* C12: unless it is cancelled the watcher is always at one of its awaits with
\* its next step possible (it never ends on its own), and a sweep that a store
\* failure stops while marking goes back to sleep, from where the next sweep
\* lists the ledger again.
C12_LoopAlive ==
    wpc # "cancelled"
    => /\ wpc \in {"sleep", "delete_client", "mark_subscription_expired"}
       /\ wpc = "sleep" => ENABLED watcher_list
       /\ wpc = "delete_client" => ENABLED watcher_delete_client
       /\ wpc = "mark_subscription_expired" => ENABLED watcher_mark_expired

C12_Step ==
    ( /\ wpc = "mark_subscription_expired"
      /\ wpc' \notin {"mark_subscription_expired", "cancelled"}
      /\ subscriptions' = subscriptions )
    => /\ wpc' = "sleep"
       /\ expired' = expired

C12_WatcherNeverStops == [] C12_LoopAlive /\ [][C12_Step]_vars

\* a sweep deleted the panel client of its first subscription and was stopped
\* by the store before marking it; the next sweep has listed it again
C12_Witness ==
    /\ wpc = "delete_client"
    /\ widx = 1
    /\ subscriptions[expired[1].id].status = "active"
    /\ \A c \in panel_clients : c.client_uuid # expired[1].client_uuid

\* C18: a privileged grant (start's admin branch, ensure_admin_subscription) for
\* an identity outside cfg.admin_tg_ids, or for an allow-listed identity with an
\* active unexpired subscription, returns normally and leaves the payments, the
\* subscriptions and the panel's clients as they were.
C18_Step ==
    /\ ( /\ last' # last
         /\ last'.op \in {"start", "ensure_admin_subscription"}
         /\ last'.tg_id \notin admin_tg_ids )
       => /\ last'.result = "menu"
          /\ << payments', subscriptions', panel_clients' >>
               = << payments, subscriptions, panel_clients >>
    /\ \A t \in Tasks :
          ( /\ task[t].op \in {"start", "ensure_admin_subscription"}
            /\ ActiveNow(task[t].tg_id) # {}
            /\ StepOf(t) )
          => /\ Returns(t)
             /\ last'.result = "menu"
             /\ << payments', subscriptions', panel_clients' >>
                  = << payments, subscriptions, panel_clients >>

C18_GrantNoOp == [][C18_Step]_vars

\* a grant for the allow-listed identity has found its active subscription
C18_Witness ==
    /\ last.op \in {"start", "ensure_admin_subscription"}
    /\ last.tg_id \in admin_tg_ids
    /\ last.result = "menu"
    /\ last.sub \in ActiveNow(last.tg_id)

\* C20: a pay_confirm call of the owner for a payment that is neither pending nor
\* succeeded ends at confirm_payment: it returns without changing the payment
\* and without a panel client or a subscription row being added.
C20_Step ==
    \A t \in Tasks :
       ( /\ task[t].op = "pay_confirm"
         /\ Owner(t)
         /\ payments[task[t].payment_id].status \notin {"pending", "succeeded"}
         /\ StepOf(t) )
       => /\ Returns(t)
          /\ last'.result = "not_succeeded"
          /\ << payments', subscriptions', panel_clients' >>
               = << payments, subscriptions, panel_clients >>

C20_NotSucceededStops == [][C20_Step]_vars

C20_Witness ==
    /\ last.op = "pay_confirm"
    /\ LastOwner
    /\ last.result = "not_succeeded"
    /\ payments[last.payment_id].status = "failed"
    /\ RowsOfPayment(last.payment_id) = {}

\* C13: while the watcher is not cancelled, every subscription that is active
\* with expires_at <= now is eventually marked expired.
C13_EventualRevocation ==
    \A i \in 1..MaxCalls :
       ( /\ i \in RowIds(subscriptions)
         /\ subscriptions[i].status = "active"
         /\ subscriptions[i].expires_at <= now )
       ~> ( \/ wpc = "cancelled"
            \/ /\ i \in RowIds(subscriptions)
               /\ subscriptions[i].status = "expired" )

\* two subscriptions that were both due were marked by different sweeps: the
\* sweep that marked the first was stopped by the store, a later one listed
\* and marked the second
C13_Witness ==
    /\ Len(subscriptions) = 2
    /\ \A i \in RowIds(subscriptions) : /\ subscriptions[i].created_at < subscriptions[i].expires_at
                                         /\ subscriptions[i].status = "expired"
    /\ subscriptions[1].expires_at = subscriptions[2].expires_at
    /\ Len(expired) = 1
    /\ wpc = "sleep"
    /\ widx = 2

C16_ResolutionOrder ==
    ( xui.op = "resolve_inbound" /\ xui.out # -1 )
    => LET ibs == xui.inbounds
           first(k, P(_)) == /\ k \in RowIds(ibs)
                             /\ P(k)
                             /\ \A j \in 1..(k - 1) : ~ P(j)
           none(P(_)) == \A j \in RowIds(ibs) : ~ P(j)
           has_id(k) == ibs[k].id = xui.inbound_id
           has_remark(k) == ibs[k].remark = xui.inbound_remark
           is_vless(k) == ibs[k].protocol \in {"vless", "VLESS"}
       IN IF xui.inbound_id # NULL
          THEN \/ first(xui.out, has_id)
               \/ xui.out = 0 /\ none(has_id)
          ELSE IF xui.inbound_remark # "" /\ ~ none(has_remark)
          THEN first(xui.out, has_remark)
          ELSE \/ first(xui.out, is_vless)
               \/ xui.out = 0 /\ none(is_vless)

\* the requested id is absent and XUIError is raised although the requested
\* remark and the vless protocol are both on the list
C16_Witness ==
    /\ xui.op = "resolve_inbound"
    /\ xui.out = 0
    /\ xui.inbound_id # NULL
    /\ \E k \in RowIds(xui.inbounds) : xui.inbounds[k].remark = xui.inbound_remark
    /\ \E k \in RowIds(xui.inbounds) : xui.inbounds[k].protocol = "VLESS"

\* the positions in the history of the call of the exchanges of one kind made
\* for one _request (variant B: delete_client's second _request)
Entries(kind, v) ==
    { k \in 1..Len(xui.trace) : xui.trace[k].kind = kind /\ xui.trace[k].variant = v }
Auth(k) == xui.trace[k].status \in {401, 403}
Failed(k) == xui.trace[k].status >= 400 \/ xui.trace[k].success = "false"
InXui == xui.op \in {"list_inbounds", "add_client", "delete_client"}

\* what holds of every _request: at most two requests, the second only after a
\* 401/403 and directly after the one re-login
C15_AtMostTwice(v) ==
    LET R == Entries("request", v)
    IN /\ Cardinality(R) <= 2
       /\ \A a, b \in R :
             a < b => /\ Auth(a)
                      /\ b = a + 2
                      /\ xui.trace[a + 1].kind = "login"

\* C15 as claimed: each _request sends its request at most twice, the second
\* time only after a 401/403 and one re-login, and when the second response is
\* a 401/403 again the operation, delete_client included, ends there with
\* XUIError.
C15_SecondFailureRaises ==
    InXui
    => \A v \in {"A", "B"} :
          /\ C15_AtMostTwice(v)
          /\ \A a, b \in Entries("request", v) :
                ( a < b /\ Auth(b) )
                => /\ xui.result = "XUIError"
                   /\ b = Len(xui.trace)

\* C15 as amended: the same, except that delete_client, when the second
\* response to its variant A is a 401/403 again, goes on to variant B; it ends
\* with XUIError when that happens to variant B.
C15_SecondFailurePropagates ==
    InXui
    => \A v \in {"A", "B"} :
          /\ C15_AtMostTwice(v)
          /\ \A a, b \in Entries("request", v) :
                ( a < b /\ Auth(b) )
                => IF xui.op = "delete_client" /\ v = "A"
                   THEN /\ xui.variant = "B"
                        /\ IF b = Len(xui.trace)
                           THEN xui.pc = "request" /\ xui.result = "none"
                           ELSE xui.trace[b + 1].kind = "request"
                   ELSE /\ xui.result = "XUIError"
                        /\ b = Len(xui.trace)

\* add_client: 401, re-login, 403, XUIError
C15_Witness ==
    /\ xui.op = "add_client"
    /\ xui.result = "XUIError"
    /\ Len(xui.trace) = 3
    /\ xui.trace[1].status = 401
    /\ xui.trace[2].kind = "login"
    /\ xui.trace[3].status = 403

\* C17: delete_client sends variant A first and variant B only after variant A
\* failed; it raises XUIError only after both failed and returns normally only
\* if one of them succeeded, where a "success": false body is a failure of
\* either variant (calls in which a login failed are left aside).
C17_BothShapesTried ==
    ( /\ xui.op = "delete_client"
      /\ xui.pc = "done"
      /\ \A k \in 1..Len(xui.trace) : xui.trace[k].kind = "login" => ~ Failed(k) )
    => LET A == Entries("request", "A")
           B == Entries("request", "B")
           lastA == CHOOSE k \in A : \A j \in A : j <= k
           lastB == CHOOSE k \in B : \A j \in B : j <= k
       IN /\ A # {}
          /\ \A a \in A, b \in B : a < b
          /\ B # {} => Failed(lastA)
          /\ xui.result = "XUIError" => ( Failed(lastA) /\ B # {} /\ Failed(lastB) )
          /\ xui.result = "ok" => ( ~ Failed(lastA) \/ ( B # {} /\ ~ Failed(lastB) ) )

\* C19: build_vless_reality_uri returns a URI for every inbound: its query has
\* type, security, encryption, flow, fp, sni, pbk and sid in this order, pbk, sni
\* and sid are empty when the configuration has none, and spx follows exactly
\* when the configuration carries a non-empty spiderX.
C19_UriAlwaysBuilt ==
    ( xui.op = "build_vless_reality_uri" /\ xui.out.raised # "unset" )
    => LET stream == xui.inbound.stream_settings
           under_tls == IF stream.tlsSettings.t = "dict"
                        THEN stream.tlsSettings.v.realitySettings ELSE None
           found == { c \in { stream.realitySettings, under_tls, stream.reality } : c.t = "dict" }
           has(member) == \E c \in found : c.v[member].t # "none"
           has_spx == \E c \in found : c.v.spiderX.t = "str" /\ c.v.spiderX.v # ""
           query == xui.out.query
           value(key) == LET k == CHOOSE k \in 1..Len(query) : query[k][1] = key IN query[k][2]
       IN /\ xui.out.raised = ""
          /\ Len(query) >= 8
          /\ [ k \in 1..8 |-> query[k][1] ]
                = << "type", "security", "encryption", "flow", "fp", "sni", "pbk", "sid" >>
          /\ ~ has("publicKey") => value("pbk") = ""
          /\ ~ has("serverNames") => value("sni") = ""
          /\ ~ has("shortIds") => value("sid") = ""
          /\ Len(query) = IF has_spx THEN 9 ELSE 8
          /\ Len(query) = 9 => query[9][1] = "spx"

\* C21: a subscription row is inserted only by a handler that stands after its
\* add_client, with the endpoint id, the secret and the expiry of that handler;
\* a handler gets there only in the step in which its add_client puts exactly
\* that endpoint id and secret on the panel with expiry_time_ms = expires * 1000,
\* and what it holds does not change until its INSERT.
C21_Step ==
    /\ Len(subscriptions') # Len(subscriptions)
          => /\ Len(subscriptions') = Len(subscriptions) + 1
             /\ \E t \in Tasks :
                   LET row == subscriptions'[Len(subscriptions')]
                   IN /\ task[t].pc = "create_subscription"
                      /\ Returns(t)
                      /\ row.inbound_id = Inbounds[task[t].inbound].id
                      /\ row.client_uuid = task[t].client_uuid
                      /\ row.expires_at = task[t].expires
    /\ \A t \in Tasks :
          /\ ( task'[t].pc = "create_subscription" /\ task[t].pc # "create_subscription" )
                => /\ task[t].pc = "add_client"
                   /\ panel_clients' \ panel_clients
                        = { [ inbound_id |-> Inbounds[task'[t].inbound].id,
                              client_uuid |-> task'[t].client_uuid,
                              expiry_time_ms |-> task'[t].expires * 1000 ] }
          /\ ( task'[t].pc = "create_subscription" /\ task[t].pc = "create_subscription" )
                => task'[t] = task[t]

C21_ProvisionedBeforeRow == [][C21_Step]_vars

\* a handler has returned the row it inserted and the client its add_client put
\* on the panel is there with the row's expiry
C21_Witness ==
    /\ last.result = "subscription"
    /\ [ inbound_id |-> subscriptions[last.sub].inbound_id,
         client_uuid |-> subscriptions[last.sub].client_uuid,
         expiry_time_ms |-> subscriptions[last.sub].expires_at * 1000 ] \in panel_clients

\* the rows `expired` lists, as the ledger holds them now
Listed(k) == subscriptions[expired[k].id]
InSweep == wpc \in {"delete_client", "mark_subscription_expired"}

\* C22: the list of a sweep is in ascending expires_at order and is gone through
\* from its first entry, one entry at a time: the entries before the current
\* one are marked, the others are not.
C22_InOrder ==
    /\ \A a, b \in RowIds(expired) : a < b => expired[a].expires_at <= expired[b].expires_at
    /\ InSweep
         => /\ widx \in RowIds(expired)
            /\ \A k \in RowIds(expired) :
                  Listed(k).status = IF k < widx THEN "expired" ELSE "active"

\* C22: a row is marked only as the current entry of the sweep and only after
\* delete_client was called for that entry's stored endpoint id and secret and
\* removed the client or raised; after the marking the sweep goes on to the
\* next entry whether or not the client is still on the panel.
C22_Step ==
    /\ \A i \in RowIds(subscriptions) :
          subscriptions'[i] # subscriptions[i]
          => /\ wpc = "mark_subscription_expired"
             /\ i = expired[widx].id
             /\ subscriptions'[i].status = "expired"
    /\ ( wpc' = "mark_subscription_expired" /\ wpc # "mark_subscription_expired" )
          => /\ wpc = "delete_client"
             /\ << expired', widx' >> = << expired, widx >>
             /\ \/ panel_clients' = panel_clients
                \/ panel_clients' =
                     { c \in panel_clients : ~ ( /\ c.inbound_id = Listed(widx).inbound_id
                                                  /\ c.client_uuid = Listed(widx).client_uuid ) }
    /\ panel_clients \ panel_clients' # {} => wpc = "delete_client"
    /\ ( wpc = "mark_subscription_expired" /\ subscriptions'[expired[widx].id] # Listed(widx) )
          => /\ expired' = expired
             /\ widx' = widx + 1
             /\ wpc' = IF widx < Len(expired) THEN "delete_client" ELSE "sleep"

C22_SweepInOrder == [] C22_InOrder /\ [][C22_Step]_vars

\* delete_client raised for the first entry of a sweep, which was marked all
\* the same; the sweep is at its second entry, which expires later
C22_Witness ==
    /\ wpc = "delete_client"
    /\ widx = 2
    /\ expired[1].expires_at < expired[2].expires_at
    /\ Listed(1).status = "expired"
    /\ \E c \in panel_clients : c.client_uuid = expired[1].client_uuid

\* C23: mark_subscription_expired on a subscription that is already expired
\* leaves the row, revoked_at included, as it was.
C23_MarkIdempotent ==
    [][ \A i \in RowIds(subscriptions) :
           subscriptions[i].status = "expired" => subscriptions'[i] = subscriptions[i] ]_vars

\* C24: set_payment_status called with the status the payment already has (the
\* second of two confirm calls that both read the payment as pending) leaves the
\* payment row, updated_at included, as it was.
C24_RedundantStatusNoOp ==
    [][ \A t \in Tasks :
           ( /\ task[t].pc = "set_payment_status"
             /\ StepOf(t)
             /\ payments[task[t].payment_id].status = "succeeded" )
           => payments' = payments ]_vars

\* C25: when updates do not overlap, no identity has two pending mock payments
\* of the same amount and currency.
C25_OnePending ==
    \A i, j \in RowIds(payments) :
       ( /\ payments[i].status = "pending"
         /\ payments[j].status = "pending"
         /\ payments[i].tg_id = payments[j].tg_id
         /\ payments[i].provider = payments[j].provider
         /\ payments[i].amount = payments[j].amount
         /\ payments[i].currency = payments[j].currency )
       => i = j

\* C25: create_payment for an identity that has a pending mock payment of the
\* amount and currency returns that payment with already_existed = true and
\* inserts nothing; it inserts only for an identity that has none.
C25_Step ==
    \A t \in Tasks :
       /\ ( /\ task[t].pc = "get_latest_pending_payment"
            /\ StepOf(t)
            /\ PendingOf(task[t].tg_id) # {} )
          => /\ Returns(t)
             /\ last'.result = "payment_existed"
             /\ last'.sub \in PendingOf(task[t].tg_id)
             /\ payments' = payments
       /\ Len(payments') # Len(payments)
          => \A t2 \in Tasks : Returns(t2) => PendingOf(task[t2].tg_id) = {}

C25_ResumesPending == [] C25_OnePending /\ [][C25_Step]_vars

\* the second buy of an identity got the pending payment of the first and the
\* ledger still holds one payment
C25_Witness ==
    /\ calls = 2
    /\ last.op = "buy"
    /\ last.result = "payment_existed"
    /\ Len(payments) = 1
    /\ payments[last.sub].tg_id = last.tg_id
    /\ payments[last.sub].status = "pending"

\* C26: a grant attempt (start or ensure_admin_subscription) of an allow-listed
\* identity that found no active subscription has obtained the identity's
\* grant payment, the one zero-amount payment the identity has.
C26_GrantPaymentReused ==
    ( /\ last.op \in {"start", "ensure_admin_subscription"}
      /\ last.tg_id \in admin_tg_ids
      /\ last.sub = NULL )
    => /\ last.result # "AttributeError"
       /\ Cardinality({ i \in RowIds(payments) : /\ payments[i].tg_id = last.tg_id
                                                 /\ payments[i].amount = 0 }) = 1

\* C27: whatever the interleaving of the calls running on one XUIClient, a call
\* that is not done can take its next step; a call whose logins were accepted
\* ends with the response of its request, or of the repetition after one
\* re-login when the request was answered 401/403; and when all calls are done
\* and no login was refused, _logged_in is true.
C27_ConcurrentRelogin ==
    xui.op = "_request"
    => /\ \A c \in Tasks :
             LET call == xui.call[c]
             IN /\ call.pc = "start" => ENABLED req_start(c)
                /\ call.pc \in {"login", "relogin"} => ENABLED req_login(c)
                /\ call.pc = "request" => ENABLED req_request(c)
                /\ call.pc = "retry" => ENABLED req_retry(c)
                /\ ( call.pc = "done" /\ call.out # -1 )
                     => IF call.first \in {401, 403}
                        THEN /\ call.second # 0
                             /\ call.out = call.second
                             /\ call.logins >= 1
                        ELSE /\ call.second = 0
                             /\ call.out = call.first
                /\ call.logins <= 2
       /\ ( \A c \in Tasks : xui.call[c].pc = "done" /\ xui.call[c].out # -1 )
             => xui.logged_in

\* every call was answered 401/403, logged in again and has returned the
\* response of its repeated request
C27_Witness ==
    /\ xui.op = "_request"
    /\ \A c \in Tasks : /\ xui.call[c].pc = "done"
                        /\ xui.call[c].first \in {401, 403}
                        /\ xui.call[c].logins = 1
                        /\ xui.call[c].out = 200
    /\ xui.logged_in

\* C28: once no provisioning call is in flight (and the process was not shut
\* down), every client on the panel is recorded in a subscription row with its
\* endpoint id and secret.
C28_NoOrphanCredential ==
    ( /\ \A t \in Tasks : task[t].pc = "idle"
      /\ wpc # "cancelled" )
    => \A c \in panel_clients :
          \E i \in RowIds(subscriptions) : /\ subscriptions[i].inbound_id = c.inbound_id
                                           /\ subscriptions[i].client_uuid = c.client_uuid

\* the client add_client put on the panel for subscription row i
ClientOf(i) ==
    [ inbound_id |-> subscriptions[i].inbound_id, client_uuid |-> subscriptions[i].client_uuid,
      expiry_time_ms |-> subscriptions[i].expires_at * 1000 ]

\* C29: a subscription is never revoked before its expiry: an expired row was
\* stamped at or after its expires_at, and an active row whose expires_at is
\* still ahead has its client on the panel.
C29_NotBeforeExpiry ==
    \A i \in RowIds(subscriptions) :
       /\ subscriptions[i].status = "expired"
            => subscriptions[i].expires_at <= subscriptions[i].revoked_at
       /\ ( subscriptions[i].status = "active" /\ subscriptions[i].expires_at > now )
            => ClientOf(i) \in panel_clients

\* C29: a sweep lists, deletes from the panel and marks only subscriptions
\* that are active with expires_at <= the time of its listing.
C29_Step ==
    /\ expired' # expired
         => \A k \in RowIds(expired') : /\ expired'[k].status = "active"
                                        /\ expired'[k].expires_at <= now
    /\ \A i \in RowIds(subscriptions) :
          subscriptions'[i].status # subscriptions[i].status
          => /\ subscriptions[i].status = "active"
             /\ subscriptions[i].expires_at <= now
    /\ \A c \in panel_clients \ panel_clients' :
          \E i \in RowIds(subscriptions) : /\ c = ClientOf(i)
                                           /\ subscriptions[i].status = "active"
                                           /\ subscriptions[i].expires_at <= now

C29_NeverRevokesEarly == [] C29_NotBeforeExpiry /\ [][C29_Step]_vars

\* at the end of the clock a sweep has marked what was due and a subscription
\* that expires after the end of the clock is active with its client
C29_Witness ==
    /\ now = MaxTime
    /\ wpc = "sleep"
    /\ expired # << >>
    /\ widx > Len(expired)
    /\ \E i \in RowIds(subscriptions) : /\ subscriptions[i].status = "active"
                                         /\ subscriptions[i].expires_at > MaxTime
                                         /\ ClientOf(i) \in panel_clients
    /\ \E i \in RowIds(subscriptions) : /\ subscriptions[i].status = "expired"
                                         /\ subscriptions[i].revoked_at = now
                                         /\ ClientOf(i) \notin panel_clients

\* C30: at one time t, every active row is listed by the listing exactly when
\* its expires_at <= t; get_active_subscription returns None exactly when every
\* active row of the identity is listed, and otherwise a row of the identity
\* that is active, not listed, not due at t, and created no earlier than any
\* other such row.
C30_QueriesPartition ==
    ( xui.op = "get_active_subscription" /\ xui.out # -1 /\ widx = 1 )
    => LET listed(i) == \E k \in RowIds(expired) : expired[k].id = i
           mine == { i \in RowIds(subscriptions) : /\ subscriptions[i].tg_id = xui.tg_id
                                                   /\ subscriptions[i].status = "active" }
       IN /\ \A i \in RowIds(subscriptions) :
                IF subscriptions[i].status = "active"
                THEN listed(i) <=> subscriptions[i].expires_at <= now
                ELSE ~ listed(i)
          /\ xui.out = NULL <=> \A i \in mine : listed(i)
          /\ xui.out # NULL
               => /\ xui.out \in mine
                  /\ ~ listed(xui.out)
                  /\ subscriptions[xui.out].expires_at > now
                  /\ \A j \in mine :
                        ~ listed(j) => subscriptions[j].created_at <= subscriptions[xui.out].created_at

\* the identity's newest active subscription is due at t: it is listed and the
\* older one that is not due is returned
C30_Witness ==
    /\ xui.op = "get_active_subscription"
    /\ xui.out # -1
    /\ xui.out # NULL
    /\ widx = 1
    /\ \E k \in RowIds(expired) : /\ expired[k].tg_id = xui.tg_id
                                   /\ expired[k].expires_at = now
                                   /\ expired[k].created_at > subscriptions[xui.out].created_at

Next ==
    \/ Tick
    \/ \E t \in Tasks :
         \/ Dispatch(t)
         \/ get_active(t)
         \/ get_pending(t)
         \/ create_payment(t)
         \/ confirm_payment(t)
         \/ confirm_set_status(t)
         \/ get_existing_sub(t)
         \/ pay_resolve_inbound(t)
         \/ pay_add_client(t)
         \/ pay_create_subscription(t)
    \/ watcher_list
    \/ watcher_delete_client
    \/ watcher_mark_expired
    \/ watcher_cancel

Spec == Init /\ [][Next]_vars

StatusSpec == StatusInit /\ [][Next]_vars

\* build_vless_reality_uri applied once to an inbound
UriSpec == UriInit /\ [][xui_build_vless_reality_uri]_vars

\* one XUIClient operation followed through its HTTP exchanges
XuiSpec == XuiInit /\ [][XuiNext]_vars

\* resolve_inbound applied once to an inbound list and a configuration
ResolveSpec == ResolveInit /\ [][xui_resolve_inbound]_vars

\* the watcher alone on a ledger with subscriptions of every expiry
SweepNext ==
    \/ Tick
    \/ watcher_list
    \/ watcher_delete_client
    \/ watcher_mark_expired

SweepSpec == SweepInit /\ [][SweepNext]_vars

\* mark_subscription_expired called on the rows of a ledger as time passes
MarkNext ==
    \/ Tick
    \/ db_mark_subscription_expired

MarkSpec == MarkInit /\ [][MarkNext]_vars

\* the handlers when updates do not overlap
SerialNext ==
    \/ Tick
    \/ \E t \in Tasks :
         \/ SerialDispatch(t)
         \/ get_active(t)
         \/ get_pending(t)
         \/ create_payment(t)
         \/ confirm_payment(t)
         \/ confirm_set_status(t)
         \/ get_existing_sub(t)
         \/ pay_resolve_inbound(t)
         \/ pay_add_client(t)
         \/ pay_create_subscription(t)
    \/ watcher_list
    \/ watcher_delete_client
    \/ watcher_mark_expired
    \/ watcher_cancel

SerialSpec == SerialInit /\ [][SerialNext]_vars

\* the _request calls of the handler coroutines interleaved at their awaits
ConcSpec == ConcInit /\ [][ConcNext]_vars

\* both ledger queries applied to one ledger at one time
QueryNext ==
    \/ db_get_active_subscription
    \/ watcher_list

QuerySpec == QueryInit /\ [][QueryNext]_vars

\* list_expired_active_subscriptions applied once to a ledger and a time
ListSpec == ListInit /\ [][watcher_list]_vars

\* The event loop resumes the watcher whenever the call it awaits has returned:
\* the panel call ends (httpx timeout), and the store does not fail for ever,
\* so a listing and a marking that stay possible again and again succeed.
LiveSpec ==
    /\ Init
    /\ [][Next]_vars
    /\ WF_vars(watcher_delete_client)
    /\ SF_vars(watcher_list /\ wpc' = "delete_client")
    /\ SF_vars(watcher_mark_expired /\ subscriptions' # subscriptions)
====
